---------------------------- MODULE Spec2Model ----------------------------
(***************************************************************************)
(* JunctionRelay test fixtures.                                            *)
(*                                                                         *)
(*   Emulator  (TestServer/TestServer5003.py): a daemon thread rewrites   *)
(*             the Value of three fake sensors every REFRESH_RATE seconds *)
(*             while GET /data.json serialises the same list, lock-free.  *)
(*   Receiver  (TestClient/TestClient5000.py): POST /data prints every    *)
(*             sensor of the posted JSON array and answers 200 / 400.     *)
(*                                                                         *)
(* The two programs are separate processes that share nothing.  Spec is   *)
(* the emulator, SpecFault the emulator started on a sensors_data whose    *)
(* Value strings need not be numeric, SpecReceiver the receiver.          *)
(* Every specification stutters on the other program's variables.         *)
(*                                                                         *)
(* The emulator's GETs are those of one client that sends its next        *)
(* request after the previous response; the updater thread runs beside    *)
(* them in every interleaving.  Time is counted in whole seconds.         *)
(***************************************************************************)
EXTENDS Integers, Sequences, FiniteSets, TLC

VARIABLES
    sensors_data,   \* emulator: the module-level list of three sensor dicts
    mainpc,         \* emulator: position of the __main__ block
    upc,            \* emulator: state of the update_fake_sensors thread
    ui,             \* emulator: index (1..3) of the sensor line the updater is at
    iter,           \* emulator: number of iterations of `while True` begun
    committed,      \* emulator: the three Values when the updater last reached sleep
    now,            \* emulator: whole seconds since update_thread.start()
    wakeAt,         \* emulator: earliest time the pending time.sleep may return
    hpc,            \* emulator: state of the data_json handler
    buf,            \* emulator: the sensor dicts jsonify has serialised so far
    inflight,       \* emulator: what the in-flight GET saw when it began
    responses,      \* emulator: the GET responses served so far, oldest first
    request,        \* receiver: the POST being handled
    response,       \* receiver: the answer to it
    printed         \* receiver: the lines the handler printed for it

evars == <<sensors_data, mainpc, upc, ui, iter, committed, now, wakeAt,
           hpc, buf, inflight, responses>>
rvars == <<request, response, printed>>
vars == <<sensors_data, mainpc, upc, ui, iter, committed, now, wakeAt,
          hpc, buf, inflight, responses, request, response, printed>>

---------------------------------------------------------------------------
(* Bounds of the model. *)

\* The clock stops at MaxTime seconds.
MaxTime == 5

\* Number of GET /data.json requests served in one run.
MaxGets == 2

\* Longest JSON array posted to the receiver.
MaxLen == 2

---------------------------------------------------------------------------
(* Text.  A Python str is a sequence of one-character strings. *)

DigitChars == <<"0", "1", "2", "3", "4", "5", "6", "7", "8", "9">>

IsDigit(c) == c \in {"0", "1", "2", "3", "4", "5", "6", "7", "8", "9"}

DigitVal(c) ==
    CASE c = "0" -> 0 [] c = "1" -> 1 [] c = "2" -> 2 [] c = "3" -> 3 [] c = "4" -> 4
      [] c = "5" -> 5 [] c = "6" -> 6 [] c = "7" -> 7 [] c = "8" -> 8 [] c = "9" -> 9

\* int() of the digits s[1..n].
RECURSIVE StrToInt(_, _)
StrToInt(s, n) ==
    IF n = 0 THEN 0 ELSE 10 * StrToInt(s, n - 1) + DigitVal(s[n])

RECURSIVE IntToStr(_)
IntToStr(n) ==
    IF n < 10 THEN <<DigitChars[n + 1]>>
    ELSE IntToStr(n \div 10) \o <<DigitChars[(n % 10) + 1]>>

Dots(s) == {i \in 1..Len(s) : s[i] = "."}

\* float(s) succeeds: the decimal literals digits[.digit].  Anything else a
\* stored Value holds in this model (a word such as N/A) makes float() raise
\* ValueError.
CanFloat(s) ==
    /\ Len(s) > 0
    /\ \A i \in 1..Len(s) : IsDigit(s[i]) \/ s[i] = "."
    /\ Cardinality(Dots(s)) <= 1
    /\ \E i \in 1..Len(s) : IsDigit(s[i])
    /\ \A d \in Dots(s) : Len(s) - d <= 1

\* float(s), in tenths: the digits before the point, then the one after it.
Float(s) ==
    IF Len(s) >= 2 /\ s[Len(s) - 1] = "."
    THEN 10 * StrToInt(s, Len(s) - 2) + DigitVal(s[Len(s)])
    ELSE IF s[Len(s)] = "." THEN 10 * StrToInt(s, Len(s) - 1)
    ELSE 10 * StrToInt(s, Len(s))

\* "{:.0f}": no decimal digit.
Format0f(t) == IntToStr(t \div 10)

\* "{:.1f}".format(x) of x given in tenths: the integer part, a point, one digit.
Format1f(t) == IntToStr(t \div 10) \o <<".">> \o <<DigitChars[(t % 10) + 1]>>

\* The step 0.2 instead of 0.1.
BumpedTwice(v) == Format1f(Float(v) + 2)

\* The step -0.1 instead of 0.1.
BumpedDown(v) == Format1f(Float(v) - 1)

\* The right-hand side of lines 36-38: "{:.1f}".format(float(v) + 0.1).
Bumped(v) == Format1f(Float(v) + 1)

---------------------------------------------------------------------------
(* Emulator. *)

REFRESH_RATE == 5

Sensor(text, type, value, id) ==
    [Text |-> text, Type |-> type, Value |-> value, SensorId |-> id]

InitialSensors ==
    << Sensor("Fake Sensor 1", "Temperature", <<"8", "8", ".", "0">>, "fake_sensor_1"),
       Sensor("Fake Sensor 2", "Humidity",    <<"2", "0", ".", "0">>, "fake_sensor_2"),
       Sensor("Fake Sensor 3", "Pressure",    <<"1", "1", ".", "0">>, "fake_sensor_3") >>

Values(list) == [i \in 1..Len(list) |-> list[i].Value]

EmulatorStart(list) ==
    /\ sensors_data = list
    /\ mainpc = "start"
    /\ upc = "unstarted"
    /\ ui = 1
    /\ iter = 0
    /\ committed = Values(list)
    /\ now = 0
    /\ wakeAt = 0
    /\ hpc = "idle"
    /\ buf = <<>>
    /\ inflight = [t0 |-> 0, w0 |-> 0, quiet |-> FALSE]
    /\ responses = <<>>

\* Lines 46-48: the updater thread is created and started; it enters the loop.
StartThread ==
    /\ mainpc = "start"
    /\ mainpc' = "started"
    /\ upc' = "run"
    /\ ui' = 1
    /\ iter' = 1
    /\ UNCHANGED <<sensors_data, committed, now, wakeAt, hpc, buf, inflight, responses,
                   request, response, printed>>

\* Line 49: app.run binds the port; requests are served from here on.
AppRun ==
    /\ mainpc = "started"
    /\ mainpc' = "serving"
    /\ UNCHANGED <<sensors_data, upc, ui, iter, committed, now, wakeAt,
                   hpc, buf, inflight, responses,
                   request, response, printed>>

\* The three statements in the order sensor 3, 2, 1.
LineReversed(u) == 4 - u

\* The first two statements exchanged.
LineSwapped(u) == IF u = 1 THEN 2 ELSE IF u = 2 THEN 1 ELSE u

\* The sensor the u-th statement of the loop body updates: line 36 writes
\* sensors_data[0], line 37 sensors_data[1], line 38 sensors_data[2]
\* (indices from 1 here).
Line(u) == u

\* One of the lines 36, 37, 38: sensor ui's Value is parsed, raised by 0.1,
\* formatted and stored; a Value float() rejects raises ValueError, which
\* nothing catches, and the thread ends.  After line 38 comes time.sleep.
UpdateSensor ==
    /\ upc = "run"
    /\ IF CanFloat(sensors_data[Line(ui)].Value)
       THEN /\ sensors_data' =
                   [sensors_data EXCEPT ![Line(ui)].Value =
                                            Bumped(sensors_data[Line(ui)].Value)]
            /\ IF ui < 3
               THEN /\ ui' = ui + 1
                    /\ UNCHANGED <<upc, committed, wakeAt>>
               ELSE /\ upc' = "sleep"
                    /\ wakeAt' = now + REFRESH_RATE
                    /\ committed' = Values(sensors_data')
                    /\ UNCHANGED ui
       ELSE /\ upc' = "dead"
            /\ UNCHANGED <<sensors_data, ui, committed, wakeAt>>
    /\ UNCHANGED <<mainpc, iter, now, hpc, buf, inflight, responses,
                   request, response, printed>>

\* A sleep that returns at once.
SleepOverAtOnce == TRUE

\* time.sleep(REFRESH_RATE) may return: at least REFRESH_RATE seconds passed.
SleepOver == now >= wakeAt

\* Line 39 returns and the loop begins its next iteration at line 36.
WakeUp ==
    /\ upc = "sleep"
    /\ SleepOver
    /\ upc' = "run"
    /\ ui' = 1
    /\ iter' = iter + 1
    /\ UNCHANGED <<sensors_data, mainpc, committed, now, wakeAt, hpc, buf, inflight, responses,
                   request, response, printed>>

\* A second passes.  The clock is read from the moment the thread is started.
Tick ==
    /\ mainpc # "start"
    /\ now < MaxTime
    /\ now' = now + 1
    /\ UNCHANGED <<sensors_data, mainpc, upc, ui, iter, committed, wakeAt,
                   hpc, buf, inflight, responses,
                   request, response, printed>>

\* Lines 41-42: a GET /data.json reaches data_json.
GetBegin ==
    /\ mainpc = "serving"
    /\ hpc = "idle"
    /\ Len(responses) < MaxGets
    /\ hpc' = "dump"
    /\ buf' = <<>>
    /\ inflight' = [t0 |-> now, w0 |-> iter, quiet |-> (upc \in {"sleep", "dead"})]
    /\ UNCHANGED <<sensors_data, mainpc, upc, ui, iter, committed, now, wakeAt, responses,
                   request, response, printed>>

\* What jsonify writes for one element of the list: the four members of the
\* dict as they are at that moment.
Dumped(sensor) ==
    [Text |-> sensor.Text, Type |-> sensor.Type,
     Value |-> sensor.Value, SensorId |-> sensor.SensorId]

\* GetDump by a handler that also raises the Value it has just read.
GetDumpBumping ==
    /\ hpc = "dump"
    /\ Len(buf) < Len(sensors_data)
    /\ buf' = Append(buf, Dumped(sensors_data[Len(buf) + 1]))
    /\ sensors_data' = [sensors_data EXCEPT ![Len(buf) + 1].Value =
                                   Bumped(sensors_data[Len(buf) + 1].Value)]
    /\ UNCHANGED <<mainpc, upc, ui, iter, committed, now, wakeAt,
                   hpc, inflight, responses, request, response, printed>>

\* Line 43, jsonify(sensors_data): the list is serialised element by element
\* with no lock held, so the updater may store between two elements.
GetDump ==
    /\ hpc = "dump"
    /\ Len(buf) < Len(sensors_data)
    /\ buf' = Append(buf, Dumped(sensors_data[Len(buf) + 1]))
    /\ UNCHANGED <<sensors_data, mainpc, upc, ui, iter, committed, now, wakeAt,
                   hpc, inflight, responses,
                   request, response, printed>>

\* Line 43 returns: the response is sent, HTTP 200.
GetRespond ==
    /\ hpc = "dump"
    /\ Len(buf) = Len(sensors_data)
    /\ responses' = Append(responses,
          [status |-> 200, body |-> buf, t0 |-> inflight.t0, t1 |-> now,
           w0 |-> inflight.w0, w1 |-> iter, quiet |-> inflight.quiet])
    /\ hpc' = "idle"
    /\ buf' = <<>>
    /\ UNCHANGED <<sensors_data, mainpc, upc, ui, iter, committed, now, wakeAt, inflight,
                   request, response, printed>>

---------------------------------------------------------------------------
(* Receiver: JSON documents.  A document is [kind, val]; an object's val is
   the set of its <<key, value>> members, an array's the sequence of its
   elements, a string's the sequence of its characters. *)

Null == [kind |-> "null", val |-> 0]
Bool(b) == [kind |-> "bool", val |-> b]
Num(n) == [kind |-> "num", val |-> n]
Str(chars) == [kind |-> "str", val |-> chars]
Arr(items) == [kind |-> "arr", val |-> items]
Obj(members) == [kind |-> "obj", val |-> members]

SensorKeys == {"ExternalId", "Name", "Value", "SensorTag"}

\* The value each key carries when a posted reading has it.
SampleValue(k) ==
    CASE k = "ExternalId" -> "1"
      [] k = "Name" -> "Temp"
      [] k = "Value" -> "20"
      [] k = "SensorTag" -> "T1"
      [] OTHER -> "x"

\* Which keys a posted reading has: all four, none, or all but one.
KeySets == {SensorKeys, {}} \cup {SensorKeys \ {k} : k \in SensorKeys}

Readings == {Obj({<<k, SampleValue(k)>> : k \in S}) : S \in KeySets}

\* What an array may hold: readings, and elements that are no mapping.
Elements == Readings \cup {Num(7), Null}

Arrays == UNION {{Arr(items) : items \in [1..n -> Elements]} : n \in 0..MaxLen}

Documents ==
    {Null, Bool(FALSE), Bool(TRUE), Num(0), Num(7), Str(<<>>), Str(<<"a", "b">>),
     Obj({<<"unit", "C">>})}
    \cup Readings \cup Arrays

IsJsonType(ctype) == ctype = "application/json"

\* A POST: its Content-Type and its body, which is empty, text that is no
\* JSON, or the text of a document.
Requests ==
    {[ctype |-> "application/json", raw |-> r, doc |-> Null] : r \in {"empty", "malformed"}}
    \cup {[ctype |-> "application/json", raw |-> "json", doc |-> d] : d \in Documents}
    \cup {[ctype |-> "text/plain", raw |-> "empty", doc |-> Null],
          [ctype |-> "text/plain", raw |-> "json", doc |-> Arr(<<Obj({})>>)]}

\* datetime.now(): two sample instants.
Instants ==
    {[Y |-> 2025, M |-> 3, D |-> 7, h |-> 9, m |-> 5, s |-> 0],
     [Y |-> 2026, M |-> 11, D |-> 2, h |-> 17, m |-> 40, s |-> 59]}

Pad2(n) == IF n < 10 THEN <<"0">> \o IntToStr(n) ELSE IntToStr(n)

\* strftime('%Y-%m-%d %H:%M:%S') of a four-digit year.
Strftime(dt) ==
    IntToStr(dt.Y) \o <<"-">> \o Pad2(dt.M) \o <<"-">> \o Pad2(dt.D) \o <<" ">>
    \o Pad2(dt.h) \o <<":">> \o Pad2(dt.m) \o <<":">> \o Pad2(dt.s)

\* Python truth of a parsed document.
Truthy(d) ==
    CASE d.kind = "null" -> FALSE
      [] d.kind = "bool" -> d.val
      [] d.kind = "num" -> d.val # 0
      [] d.kind = "str" -> Len(d.val) > 0
      [] d.kind = "arr" -> Len(d.val) > 0
      [] d.kind = "obj" -> d.val # {}

RECURSIVE SetToSeq(_)
SetToSeq(S) ==
    IF S = {} THEN <<>>
    ELSE LET x == CHOOSE y \in S : TRUE IN <<x>> \o SetToSeq(S \ {x})

\* `for sensor in data` can start: numbers, booleans and None are not iterable.
Iterable(d) == d.kind \in {"arr", "obj", "str"}

\* What the loop variable takes: a list's elements, a dict's keys, a str's
\* characters.
Iterate(d) ==
    CASE d.kind = "arr" -> d.val
      [] d.kind = "obj" -> LET keys == SetToSeq({mem[1] : mem \in d.val})
                           IN  [i \in 1..Len(keys) |-> Str(<<keys[i]>>)]
      [] d.kind = "str" -> [i \in 1..Len(d.val) |-> Str(<<d.val[i]>>)]

\* sensor.get exists: only a dict has it.
HasGet(e) == e.kind = "obj"

\* sensor.get(key, default), lines 13-16.
Get(e, key, default) ==
    IF \E mem \in e.val : mem[1] = key
    THEN (CHOOSE mem \in e.val : mem[1] = key)[2]
    ELSE default

HeaderLine(dt) == <<"Received data at ", Strftime(dt), ":">>

\* The line with Value and SensorTag in the order the code reads them.
SensorLineValueFirst(sensor) ==
    LET sensor_id == Get(sensor, "ExternalId", "N/A")
        sensor_name == Get(sensor, "Name", "N/A")
        sensor_value == Get(sensor, "Value", "N/A")
        sensor_tag == Get(sensor, "SensorTag", "N/A")
    IN  <<"Sensor ID: ", sensor_id, ", Sensor Name: ", sensor_name,
          ", Sensor Tag: ", sensor_value, ", Value: ", sensor_tag>>

\* Lines 13-17: the line printed for one element.
SensorLine(sensor) ==
    LET sensor_id == Get(sensor, "ExternalId", "N/A")
        sensor_name == Get(sensor, "Name", "N/A")
        sensor_value == Get(sensor, "Value", "N/A")
        sensor_tag == Get(sensor, "SensorTag", "N/A")
    IN  <<"Sensor ID: ", sensor_id, ", Sensor Name: ", sensor_name,
          ", Sensor Tag: ", sensor_tag, ", Value: ", sensor_value>>

\* Lines 12-17: the loop from element i on, with the lines printed so far.  An
\* element without .get raises AttributeError and ends the loop there.
RECURSIVE PrintSensors(_, _, _)
PrintSensors(items, i, out) ==
    IF i > Len(items) THEN [raised |-> FALSE, printed |-> out]
    ELSE IF ~HasGet(items[i]) THEN [raised |-> TRUE, printed |-> out]
    ELSE PrintSensors(items, i + 1, Append(out, SensorLine(items[i])))

Success == <<"status", "success">>
NoData == <<"status", "no data received">>

Answer(status, body, by, lines) ==
    [response |-> [status |-> status, body |-> body, by |-> by], printed |-> lines]

\* Line 8, request.json: get_json() without silent.  A Content-Type that is
\* not JSON gives None (Flask before 2.1) or 415 Unsupported Media Type
\* (Flask 2.1 on); a body that does not parse gives 400 Bad Request; either
\* error leaves the view function at line 8.
RequestJson(req, legacy) ==
    IF ~IsJsonType(req.ctype)
    THEN IF legacy THEN [abort |-> 0, data |-> Null] ELSE [abort |-> 415, data |-> Null]
    ELSE IF req.raw # "json" THEN [abort |-> 400, data |-> Null]
    ELSE [abort |-> 0, data |-> req.doc]

\* Lines 7-19: the view function on one request, with datetime.now() = dt.
\* An exception the function does not catch is answered by Flask with 500.
receive_data(req, dt, legacy) ==
    LET got == RequestJson(req, legacy)
        data == got.data
    IN  IF got.abort = 415 THEN Answer(415, <<"html", "Unsupported Media Type">>, "flask", <<>>)
        ELSE IF got.abort = 400 THEN Answer(400, <<"html", "Bad Request">>, "flask", <<>>)
        ELSE IF Truthy(data)
        THEN IF ~Iterable(data)
             THEN Answer(500, <<"html", "Internal Server Error">>, "flask",
                         <<HeaderLine(dt)>>)
             ELSE LET loop == PrintSensors(Iterate(data), 1, <<HeaderLine(dt)>>)
                  IN  IF loop.raised
                      THEN Answer(500, <<"html", "Internal Server Error">>, "flask",
                                  loop.printed)
                      ELSE Answer(200, Success, "view", loop.printed)
        ELSE Answer(400, NoData, "view", <<>>)

NoRequest == [ctype |-> "", raw |-> "none", doc |-> Null]

ReceiverIdle ==
    /\ request = NoRequest
    /\ response = [status |-> 0, body |-> <<>>, by |-> "none"]
    /\ printed = <<>>

\* One POST /data is handled from its arrival to its response.
ReceiveData ==
    \E req \in Requests : \E dt \in Instants :
    \E legacy \in (IF IsJsonType(req.ctype) THEN {FALSE} ELSE BOOLEAN) :
        LET done == receive_data(req, dt, legacy)
        IN  /\ request' = req
            /\ response' = done.response
            /\ printed' = done.printed
            /\ UNCHANGED evars

Init == EmulatorStart(InitialSensors) /\ ReceiverIdle

Next ==
    \/ StartThread
    \/ AppRun
    \/ UpdateSensor
    \/ WakeUp
    \/ Tick
    \/ GetBegin
    \/ GetDump
    \/ GetRespond

Spec == Init /\ [][Next]_vars

NextReceiver == ReceiveData

SpecReceiver == Init /\ [][NextReceiver]_vars

---------------------------------------------------------------------------
(* The emulator started on a sensors_data in which one Value may be text that
   float() rejects; the program's own literal is one of the lists. *)

NotANumber == <<"N", "/", "A">>

SeededSensors ==
    {InitialSensors} \cup
    {[InitialSensors EXCEPT ![i].Value = NotANumber] : i \in 1..3}

InitFault == (\E list \in SeededSensors : EmulatorStart(list)) /\ ReceiverIdle

SpecFault == InitFault /\ [][Next]_vars

---------------------------------------------------------------------------
(* Emulator: what the claims speak of. *)

\* A Value rendered with exactly one decimal digit: digits, a point, a digit.
OneDecimal(v) ==
    /\ Len(v) >= 3
    /\ v[Len(v) - 1] = "."
    /\ \A i \in (1..Len(v)) \ {Len(v) - 1} : IsDigit(v[i])

\* The literal Values as numbers, in tenths.
InitialTenths == [i \in 1..3 |-> Float(InitialSensors[i].Value)]

\* The number of 0.1 steps between the literal Value of sensor i and v.
StepsOf(i, v) == Float(v) - InitialTenths[i]

\* c1 >= c2 >= c3 >= c1 - 1 of three Values.
InOrder(vals) ==
    /\ StepsOf(1, vals[1]) >= StepsOf(2, vals[2])
    /\ StepsOf(2, vals[2]) >= StepsOf(3, vals[3])
    /\ StepsOf(3, vals[3]) >= StepsOf(1, vals[1]) - 1

Served == 1..Len(responses)

\* A response whose request arrived while the updater was not between wake-up
\* and sleep, and which was sent before the next wake-up: no store fell
\* between its reads.
Undisturbed(r) == r.quiet /\ r.w0 = r.w1

(* C3, as stated: a GET served before one refresh interval has elapsed since
   startup returns exactly the Values 88.0, 20.0, 11.0. *)
C3_Original ==
    \A k \in Served :
        responses[k].t1 < REFRESH_RATE =>
            Values(responses[k].body) =
                << <<"8", "8", ".", "0">>, <<"2", "0", ".", "0">>, <<"1", "1", ".", "0">> >>

(* C3, amended: a GET served before one refresh interval has elapsed since the
   updater thread was started returns exactly 3 objects, and each Value is
   either the literal one or the literal one plus 0.1 (88.0 or 88.1, 20.0 or
   20.1, 11.0 or 11.1): the thread's first round runs before its first sleep. *)
C3_Amended ==
    \A k \in Served :
        responses[k].t1 < REFRESH_RATE =>
            /\ Len(responses[k].body) = 3
            /\ responses[k].body[1].Value \in {<<"8", "8", ".", "0">>, <<"8", "8", ".", "1">>}
            /\ responses[k].body[2].Value \in {<<"2", "0", ".", "0">>, <<"2", "0", ".", "1">>}
            /\ responses[k].body[3].Value \in {<<"1", "1", ".", "0">>, <<"1", "1", ".", "1">>}

\* The very first second: a response that already shows the first round whole.
C3_Witness ==
    \E k \in Served :
        /\ responses[k].t1 = 0
        /\ Values(responses[k].body) =
               << <<"8", "8", ".", "1">>, <<"2", "0", ".", "1">>, <<"1", "1", ".", "1">> >>

(* C4, as stated: of two GET responses the second of which is served at least
   REFRESH_RATE seconds after the first, every Value of the second is the
   first's plus exactly 0.1, with one decimal digit. *)
C4_Original ==
    \A j \in Served : \A k \in Served :
        (j < k /\ responses[k].t1 - responses[j].t1 >= REFRESH_RATE) =>
            \A i \in 1..3 :
                /\ Float(responses[k].body[i].Value) = Float(responses[j].body[i].Value) + 1
                /\ OneDecimal(responses[k].body[i].Value)

(* C4, amended: of two such responses, the second requested after the first
   was sent, every Value of the second is the first's plus n times 0.1 for a whole n with 0 <= n <= elapsed div REFRESH_RATE + 1
   (elapsed: from the first request's arrival to the second response), with
   exactly one decimal digit; n is 1 only when exactly one store fell between
   the two reads. *)
C4_Amended ==
    \A j \in Served : \A k \in Served :
        (j < k /\ responses[k].t1 - responses[j].t1 >= REFRESH_RATE) =>
            \A i \in 1..3 :
                /\ OneDecimal(responses[k].body[i].Value)
                /\ \E n \in 0..((responses[k].t1 - responses[j].t0) \div REFRESH_RATE + 1) :
                      Float(responses[k].body[i].Value) =
                          Float(responses[j].body[i].Value) + n

\* Two responses a refresh interval apart with one update round between them.
C4_Witness ==
    \E j \in Served : \E k \in Served :
        /\ j < k
        /\ responses[k].t1 - responses[j].t1 >= REFRESH_RATE
        /\ Undisturbed(responses[j])
        /\ \A i \in 1..3 :
              Float(responses[k].body[i].Value) = Float(responses[j].body[i].Value) + 1

(* C5, as stated: two GETs served between the same two consecutive wake-ups
   of the updater return identical Values, whatever the interleaving. *)
C5_Original ==
    \A j \in Served : \A k \in Served :
        (j < k /\ responses[j].w0 = responses[k].w1) =>
            Values(responses[j].body) = Values(responses[k].body)

(* C5, amended: two GETs served between the same two consecutive wake-ups
   return identical Values provided the first arrived after the three stores
   of that window (the updater was already asleep). *)
C5_Amended ==
    \A j \in Served : \A k \in Served :
        (j < k /\ responses[j].w0 = responses[k].w1 /\ responses[j].quiet) =>
            Values(responses[j].body) = Values(responses[k].body)

\* Two GETs in the window after the second wake-up, the first after its stores.
C5_Witness ==
    \E j \in Served : \E k \in Served :
        /\ j < k
        /\ responses[j].w0 = 2
        /\ responses[k].w1 = 2
        /\ responses[j].quiet
        /\ Values(responses[k].body) = Values(sensors_data)

(* C6: every Value a GET returns, and every Value jsonify has read so far, is
   a whole Value the updater stored: the literal Value plus a whole number of
   0.1 steps, no more than rounds begun, with one decimal digit. *)
C6_WholeValues ==
    /\ \A k \in Served : \A i \in 1..3 :
          /\ OneDecimal(responses[k].body[i].Value)
          /\ StepsOf(i, responses[k].body[i].Value) \in 0..iter
    /\ \A i \in 1..Len(buf) :
          /\ OneDecimal(buf[i].Value)
          /\ StepsOf(i, buf[i].Value) \in 0..iter

\* One response that mixes a round: sensor 1 already stored, sensor 3 not yet,
\* request and response both within the second round.
C6_Witness ==
    \E k \in Served :
        /\ responses[k].w0 = 2
        /\ responses[k].w1 = 2
        /\ StepsOf(1, responses[k].body[1].Value) = 2
        /\ StepsOf(3, responses[k].body[3].Value) = 1

\* The list keeps its three sensors, their order and their fixed fields.
C9_Shape ==
    /\ Len(sensors_data) = 3
    /\ \A i \in 1..3 :
          /\ DOMAIN sensors_data[i] = {"Text", "Type", "Value", "SensorId"}
          /\ sensors_data[i].Text = InitialSensors[i].Text
          /\ sensors_data[i].Type = InitialSensors[i].Type
          /\ sensors_data[i].SensorId = InitialSensors[i].SensorId

\* A step that changes the list is a step of the running updater that gives
\* one sensor its previous Value plus 0.1 with one decimal digit; a completed
\* iteration has raised all three Values by 0.1; a step of the handler leaves
\* the list as it is.
C9_Step ==
    /\ sensors_data' # sensors_data =>
          /\ upc = "run"
          /\ hpc' = hpc /\ buf' = buf /\ responses' = responses
          /\ \E i \in 1..3 :
                /\ Float(sensors_data'[i].Value) = Float(sensors_data[i].Value) + 1
                /\ OneDecimal(sensors_data'[i].Value)
                /\ \A m \in (1..3) \ {i} : sensors_data'[m] = sensors_data[m]
    /\ committed' # committed =>
          \A i \in 1..3 : Float(committed'[i]) = Float(committed[i]) + 1
    /\ (hpc' # hpc \/ buf' # buf \/ responses' # responses) =>
          sensors_data' = sensors_data

(* C9: in every reachable state the list holds exactly three sensors in the
   same order with their initial Text, Type and SensorId; the updater changes
   only Values, each to its previous number plus 0.1 with one decimal digit,
   and serving a GET changes nothing in the list. *)
C9_Frame == [](C9_Shape) /\ [][C9_Step]_vars

\* Two rounds completed and a response served.
C9_Witness ==
    /\ Len(responses) >= 1
    /\ iter = 2
    /\ upc = "sleep"
    /\ \A i \in 1..3 : StepsOf(i, sensors_data[i].Value) = 2

(* C10, as stated: every reachable state, and hence every GET response under
   any interleaving, has c1 >= c2 >= c3 >= c1 - 1. *)
C10_Original ==
    /\ InOrder(Values(sensors_data))
    /\ \A k \in Served : InOrder(Values(responses[k].body))

(* C10, amended: every reachable state of the shared list has
   c1 >= c2 >= c3 >= c1 - 1, and so has every GET response between whose reads
   no store of the updater falls; a response read across stores need not. *)
C10_Amended ==
    /\ InOrder(Values(sensors_data))
    /\ \A k \in Served :
          Undisturbed(responses[k]) => InOrder(Values(responses[k].body))

\* The list in the middle of its second round, and an undisturbed response
\* served after the first.
C10_Witness ==
    /\ StepsOf(1, sensors_data[1].Value) = 2
    /\ StepsOf(3, sensors_data[3].Value) = 1
    /\ \E k \in Served :
          /\ Undisturbed(responses[k])
          /\ StepsOf(3, responses[k].body[3].Value) = 1

\* When the updater has died at statement ui: what the sensors hold.
C8_Dead ==
    upc = "dead" =>
        /\ \A i \in 1..3 :
              IF i < ui
              THEN /\ CanFloat(sensors_data[i].Value)
                   /\ Float(sensors_data[i].Value) = Float(committed[i]) + 1
              ELSE sensors_data[i].Value = committed[i]
        /\ ~CanFloat(sensors_data[ui].Value)
        /\ \A k \in Served : responses[k].status = 200

\* Once dead, the updater stays dead, no iteration begins and no Value changes.
C8_Stays ==
    upc = "dead" =>
        /\ upc' = "dead"
        /\ iter' = iter
        /\ sensors_data' = sensors_data

(* C8, as stated: once the updater has stopped on a Value that is no number,
   the sensors hold the Values of the last completed update round, none of
   them a Value of the failed round. *)
C8_Original == upc = "dead" => Values(sensors_data) = committed

(* C8, amended: when the updater reaches a Value that is no number the loop
   stops for good (no later iteration, no Value changes again) and GET keeps
   answering 200 with the Values as last stored: the sensors ahead of the faulty
   one carry the Value of the failed round (0.1 more than after the last
   completed round), the faulty one and those after it the Value of the last
   completed round. *)
C8_Amended == [](C8_Dead) /\ [][C8_Stays]_vars

\* The updater died on sensor 2, and a GET that arrived afterwards was answered
\* with sensor 1 already raised.
C8_Witness ==
    /\ upc = "dead"
    /\ ui = 2
    /\ \E k \in Served :
          /\ responses[k].quiet
          /\ responses[k].status = 200
          /\ responses[k].body[1].Value = <<"8", "8", ".", "1">>
          /\ responses[k].body[2].Value = NotANumber

---------------------------------------------------------------------------
(* Receiver: what the claims speak of. *)

\* The request's body parsed as JSON and was sent as JSON.
ParsedBody == request.raw = "json" /\ IsJsonType(request.ctype)

(* C1: for every POST whose body parses as JSON, the response is 200 with
   {"status": "success"} if and only if the parsed body is truthy, be it a
   non-empty object, a number, a string or an array of non-mappings. *)
C1_Claim ==
    ParsedBody =>
        ((response.status = 200 /\ response.body = <<"status", "success">>)
            <=> Truthy(request.doc))

(* C2: a body that is missing, empty, malformed JSON, null, {} or [] is
   answered by the handler itself with 400 and {"status": "no data received"},
   nothing is printed, and there is no other error outcome. *)
C2_Claim ==
    (\/ request.raw \in {"empty", "malformed"}
     \/ request.raw = "json" /\ request.doc \in {Null, Obj({}), Arr(<<>>)})
    => /\ response = [status |-> 400, body |-> <<"status", "no data received">>,
                      by |-> "view"]
       /\ printed = <<>>

\* The request carries a non-empty array whose elements are all mappings.
ArrayOfMappings ==
    /\ ParsedBody
    /\ request.doc.kind = "arr"
    /\ Len(request.doc.val) >= 1
    /\ \A i \in 1..Len(request.doc.val) : request.doc.val[i].kind = "obj"

\* What the claim says is shown for key k of element e.
Shown(e, k) ==
    IF k \in {mem[1] : mem \in e.val}
    THEN CHOOSE v \in {mem[2] : mem \in e.val} : <<k, v>> \in e.val
    ELSE "N/A"

\* YYYY-MM-DD HH:MM:SS
TimestampShape(t) ==
    /\ Len(t) = 19
    /\ t[5] = "-" /\ t[8] = "-" /\ t[11] = " " /\ t[14] = ":" /\ t[17] = ":"
    /\ \A i \in (1..19) \ {5, 8, 11, 14, 17} : IsDigit(t[i])

(* C7: for a truthy body that is an array of n mappings the request prints
   exactly one header line "Received data at <timestamp>:" and then exactly n
   sensor lines in element order, the i-th being "Sensor ID: <ExternalId>,
   Sensor Name: <Name>, Sensor Tag: <SensorTag>, Value: <Value>" of the i-th
   element with "N/A" for every absent key; the lines and the answer are those
   of this request alone, whatever was posted before. *)
C7_Lines ==
    ArrayOfMappings =>
        /\ response = [status |-> 200, body |-> <<"status", "success">>, by |-> "view"]
        /\ Len(printed) = Len(request.doc.val) + 1
        /\ Len(printed[1]) = 3
        /\ printed[1][1] = "Received data at "
        /\ TimestampShape(printed[1][2])
        /\ printed[1][3] = ":"
        /\ \A i \in 1..Len(request.doc.val) :
              printed[i + 1] =
                  <<"Sensor ID: ", Shown(request.doc.val[i], "ExternalId"),
                    ", Sensor Name: ", Shown(request.doc.val[i], "Name"),
                    ", Sensor Tag: ", Shown(request.doc.val[i], "SensorTag"),
                    ", Value: ", Shown(request.doc.val[i], "Value")>>

\* The reading of the specification's example followed by one without a
\* SensorTag.
C7_Witness ==
    /\ ArrayOfMappings
    /\ Len(request.doc.val) = 2
    /\ printed[2] = <<"Sensor ID: ", "1", ", Sensor Name: ", "Temp",
                      ", Sensor Tag: ", "T1", ", Value: ", "20">>
    /\ printed[3] = <<"Sensor ID: ", "1", ", Sensor Name: ", "Temp",
                      ", Sensor Tag: ", "N/A", ", Value: ", "20">>

=============================================================================
